---- MODULE Spec2Model ----
(***************************************************************************)
(* Model of src/main.py: the CNPJ enrichment script.  One sequential       *)
(* thread of control (main) walks the list of identifiers; every call it   *)
(* makes (fetch_cnpj_data, insert_data, verify_data_in_db, log_error,      *)
(* time.sleep) is one step, selected by the program position pc.           *)
(*                                                                         *)
(* Python strings that are filtered character by character (the CNPJs) are *)
(* sequences of one-character strings, so '' is << >>; the other text      *)
(* fields are TLA+ strings.  The timestamp of a log line is not modelled.  *)
(***************************************************************************)
EXTENDS Naturals, Sequences, FiniteSets

\* ---------------------------------------------------------------- bounds
\* The longest spreadsheet of Spec, and of SpecStore.
MaxItems == 4
MaxStoreItems == 3

\* The spreadsheet cells the input column may hold.
RawInputs == { <<"1", ".", "1">>, <<"a", "-">> }

\* The shapes of HTTP-200 JSON body the API is taken to return.
BodyShapes == {"full", "sparse", "no_estabelecimento"}

\* ------------------------------------------------------------- constants
REQUESTS_PER_MINUTE == 3

Digits == {"0", "1", "2", "3", "4", "5", "6", "7", "8", "9"}

\* --------------------------------------------------------- pure functions
IsDigit(ch) == ch \in Digits

\* re.sub(r'\D', '', str(cnpj))
clean_cnpj(cnpj) == SelectSeq(cnpj, IsDigit)

\* df['CNPJ'].apply(clean_cnpj).tolist()
CleanAll(raws) == [k \in 1..Len(raws) |-> clean_cnpj(raws[k])]

\* dict.get(key, default)
DictGet(d, key, default) == IF key \in DOMAIN d THEN d[key] ELSE default

\* The empty dict {} used as a default.
EmptyDict == [k \in {} |-> ""]

\* The JSON body of a 200 response for the requested identifier.
Body(shape, cnpj) ==
  CASE shape = "full" ->
         [razao_social |-> "A", nome |-> "N",
          estabelecimento |->
            [cnpj |-> cnpj, nome_fantasia |-> "F", logradouro |-> "L",
             cep |-> "C", estado |-> [sigla |-> "SP"],
             inscricoes_estaduais |-> << [inscricao_estadual |-> "IE"] >>]]
    [] shape = "sparse" ->
         [razao_social |-> "B",
          estabelecimento |-> [cnpj |-> cnpj, inscricoes_estaduais |-> << >>]]
    [] OTHER ->
         [razao_social |-> "A"]

\* The dict fetch_cnpj_data builds from a 200 body.
ExtractRecord(body) ==
  LET estabelecimento == DictGet(body, "estabelecimento", EmptyDict)
      inscricoes_estaduais == DictGet(estabelecimento, "inscricoes_estaduais", << >>)
      inscricao_estadual ==
        IF inscricoes_estaduais # << >>
          THEN DictGet(inscricoes_estaduais[1], "inscricao_estadual", "")
          ELSE ""
  IN [cnpj |-> DictGet(estabelecimento, "cnpj", << >>),
      inscricao_estadual |-> inscricao_estadual,
      razao_social |-> DictGet(body, "razao_social", ""),
      nome |-> DictGet(body, "nome", ""),
      nome_fantasia |-> DictGet(estabelecimento, "nome_fantasia", ""),
      logradouro |-> DictGet(estabelecimento, "logradouro", ""),
      cep |-> DictGet(estabelecimento, "cep", ""),
      uf |-> DictGet(DictGet(estabelecimento, "estado", EmptyDict), "sigla", "")]

\* INSERT OR REPLACE INTO cnpj_info, cnpj being the PRIMARY KEY: the rows in
\* conflict on the key are deleted, the new row is inserted.
ExecuteReplaceNoKey(rows, data) == rows \cup {data}
ExecuteReplace(rows, data) == {r \in rows : r.cnpj # data.cnpj} \cup {data}

\* conn.commit(): the connection's working rows become the committed rows.
Commit(committed, working) == working

\* conn.rollback(): the working rows are dropped.
RollbackKeepsWrite(committed, working) == working
Rollback(committed, working) == committed

\* SELECT * FROM cnpj_info WHERE cnpj = ? ; fetchone()
SelectByCnpj(rows, cnpj) == {r \in rows : r.cnpj = cnpj}

\* ------------------------------------------------------------------ state
VARIABLES
  rawCnpjs,   \* the CNPJ column of the spreadsheet
  cnpjs,      \* main: the cleaned list
  i,          \* main: the loop index (0-based, as enumerate gives it)
  pc,         \* main: the position in the loop body
  data,       \* main: << >> for None, <<record>> for the fetched dict
  e,          \* main: the message of the exception being handled
  db,         \* cnpj_info: the committed rows
  log,        \* error_log.txt: the lines written, in order
  \* history, written but never read by the program
  sleptAfter, \* the 1-based positions after which time.sleep ran
  calls,      \* requests.get calls since the last time.sleep
  fetchRes,   \* per position: how fetch_cnpj_data ended
  upsertRes,  \* per position: how insert_data ended
  verifyRes,  \* per position: how verify_data_in_db ended
  dbBefore,   \* the committed rows when the current item started
  last        \* per key: the record of the last committed upsert

vars == <<rawCnpjs, cnpjs, i, pc, data, e, db, log, sleptAfter, calls,
          fetchRes, upsertRes, verifyRes, dbBefore, last>>

hist == <<fetchRes, upsertRes, verifyRes>>

RawLists == UNION {[1..n -> RawInputs] : n \in 0..MaxItems}

N == Len(cnpjs)
cnpj == cnpjs[i + 1]

Init ==
  /\ rawCnpjs \in RawLists
  /\ cnpjs = << >>
  /\ i = 0
  /\ pc = "start"
  /\ data = << >>
  /\ e = ""
  /\ db = {}
  /\ log = << >>
  /\ sleptAfter = {}
  /\ calls = 0
  /\ fetchRes = << >>
  /\ upsertRes = << >>
  /\ verifyRes = << >>
  /\ dbBefore = {}
  /\ last = << >>

\* create_table(); read_excel; clean; tolist; enter the for loop.
Start ==
  /\ pc = "start"
  /\ cnpjs' = CleanAll(rawCnpjs)
  /\ pc' = IF Len(rawCnpjs) = 0 THEN "done" ELSE "fetch"
  /\ fetchRes' = [k \in 1..Len(rawCnpjs) |-> "pending"]
  /\ upsertRes' = [k \in 1..Len(rawCnpjs) |-> "none"]
  /\ verifyRes' = [k \in 1..Len(rawCnpjs) |-> "none"]
  /\ UNCHANGED <<rawCnpjs, i, data, e, db, log, sleptAfter, calls, dbBefore, last>>

\* The for statement takes the next item, or the loop ends.  data and e are
\* dead here (each is assigned before it is read again), so they are cleared.
NextItem ==
  /\ i' = i + 1
  /\ pc' = IF i + 1 < N THEN "fetch" ELSE "done"
  /\ data' = << >>
  /\ e' = ""

\* fetch_cnpj_data(cnpj): status 200.
FetchRecord ==
  /\ pc = "fetch"
  /\ \E shape \in BodyShapes : data' = << ExtractRecord(Body(shape, cnpj)) >>
  /\ pc' = "insert"
  /\ calls' = calls + 1
  /\ fetchRes' = [fetchRes EXCEPT ![i + 1] = "record"]
  /\ dbBefore' = db
  /\ UNCHANGED <<rawCnpjs, cnpjs, i, e, db, log, sleptAfter, upsertRes, verifyRes, last>>

\* fetch_cnpj_data(cnpj): any other status, None is returned.
FetchAbsent ==
  /\ pc = "fetch"
  /\ data' = << >>
  /\ pc' = "log_absent"
  /\ calls' = calls + 1
  /\ fetchRes' = [fetchRes EXCEPT ![i + 1] = "absent"]
  /\ dbBefore' = db
  /\ UNCHANGED <<rawCnpjs, cnpjs, i, e, db, log, sleptAfter, upsertRes, verifyRes, last>>

\* fetch_cnpj_data(cnpj): requests.get or response.json() raises.
FetchRaise ==
  /\ pc = "fetch"
  /\ pc' = "log_exc"
  /\ e' = "fetch failed"
  /\ calls' = calls + 1
  /\ fetchRes' = [fetchRes EXCEPT ![i + 1] = "raised"]
  /\ dbBefore' = db
  /\ UNCHANGED <<rawCnpjs, cnpjs, i, data, db, log, sleptAfter, upsertRes, verifyRes, last>>

\* insert_data(data): execute and commit succeed.
InsertOk ==
  /\ pc = "insert"
  /\ db' = Commit(db, ExecuteReplace(db, data[1]))
  /\ last' = [k \in DOMAIN last \cup {data[1].cnpj} |->
                IF k = data[1].cnpj THEN data[1] ELSE last[k]]
  /\ pc' = "verify"
  /\ upsertRes' = [upsertRes EXCEPT ![i + 1] = "ok"]
  /\ UNCHANGED <<rawCnpjs, cnpjs, i, data, e, log, sleptAfter, calls, fetchRes, verifyRes, dbBefore>>

\* insert_data(data): execute or commit raises inside the try; the handler
\* prints, rolls back and the function returns normally.
InsertFail ==
  /\ pc = "insert"
  /\ \E stage \in {"execute", "commit"} :
       /\ db' = Rollback(db, IF stage = "commit" THEN ExecuteReplace(db, data[1]) ELSE db)
       /\ upsertRes' = [upsertRes EXCEPT ![i + 1] = "failed"]
  /\ pc' = "verify"
  /\ UNCHANGED <<rawCnpjs, cnpjs, i, data, e, log, sleptAfter, calls, fetchRes, verifyRes, dbBefore, last>>

\* insert_data(data): sqlite3.connect raises, outside the try.
InsertRaise ==
  /\ pc = "insert"
  /\ pc' = "log_exc"
  /\ e' = "connect failed"
  /\ upsertRes' = [upsertRes EXCEPT ![i + 1] = "connect"]
  /\ UNCHANGED <<rawCnpjs, cnpjs, i, data, db, log, sleptAfter, calls, fetchRes, verifyRes, dbBefore, last>>

\* verify_data_in_db(cnpj): the SELECT runs, the result is printed.
Verify ==
  /\ pc = "verify"
  /\ verifyRes' = [verifyRes EXCEPT ![i + 1] =
                     IF SelectByCnpj(db, cnpj) # {} THEN "found" ELSE "not_found"]
  /\ pc' = "pace"
  /\ UNCHANGED <<rawCnpjs, cnpjs, i, data, e, db, log, sleptAfter, calls, fetchRes, upsertRes, dbBefore, last>>

\* verify_data_in_db(cnpj): connect or execute raises.
VerifyRaise ==
  /\ pc = "verify"
  /\ verifyRes' = [verifyRes EXCEPT ![i + 1] = "raised"]
  /\ pc' = "log_exc"
  /\ e' = "verify failed"
  /\ UNCHANGED <<rawCnpjs, cnpjs, i, data, db, log, sleptAfter, calls, fetchRes, upsertRes, dbBefore, last>>

\* log_error(cnpj, error): the line appended (item is history: the position).
LogLine(error) == [cnpj |-> cnpj, error |-> error, item |-> i + 1]

\* else: log_error(cnpj, "Dados não retornados pela API"); open() may raise.
LogAbsent ==
  /\ pc = "log_absent"
  /\ \/ /\ log' = Append(log, LogLine("Dados nao retornados pela API"))
        /\ pc' = "pace"
        /\ e' = e
     \/ /\ log' = log
        /\ pc' = "log_exc"
        /\ e' = "log unwritable"
  /\ UNCHANGED <<rawCnpjs, cnpjs, i, data, db, sleptAfter, calls, hist, dbBefore, last>>

\* if (i + 1) % REQUESTS_PER_MINUTE == 0: time.sleep(60); then the next item.
Pace ==
  /\ pc = "pace"
  /\ IF (i + 1) % REQUESTS_PER_MINUTE = 0
       THEN sleptAfter' = sleptAfter \cup {i + 1} /\ calls' = 0
       ELSE UNCHANGED <<sleptAfter, calls>>
  /\ NextItem
  /\ UNCHANGED <<rawCnpjs, cnpjs, db, log, hist, dbBefore, last>>

\* except Exception as e: log_error(cnpj, str(e)); then the next item.  When
\* open() raises here nothing catches it and main ends.
LogException ==
  /\ pc = "log_exc"
  /\ \/ /\ log' = Append(log, LogLine(e))
        /\ NextItem
     \/ /\ log' = log
        /\ pc' = "aborted"
        /\ UNCHANGED <<i, data, e>>
  /\ UNCHANGED <<rawCnpjs, cnpjs, db, sleptAfter, calls, hist, dbBefore, last>>

Next ==
  \/ Start
  \/ FetchRecord
  \/ FetchAbsent
  \/ FetchRaise
  \/ InsertOk
  \/ InsertFail
  \/ InsertRaise
  \/ Verify
  \/ VerifyRaise
  \/ LogAbsent
  \/ Pace
  \/ LogException

Spec == Init /\ [][Next]_vars

\* The same program on the shorter spreadsheets: the runs the store claims are
\* checked on.
InitStore == Init /\ Len(rawCnpjs) <= MaxStoreItems
SpecStore == InitStore /\ [][Next]_vars

\* ------------------------------------------------------- claim vocabulary
\* The log lines written for the item at 1-based position k.
LogCount(k) == Cardinality({n \in 1..Len(log) : log[n].item = k})

\* The loop has left the item at position k behind.
Finished(k) == i >= k

\* The loop body is running for an item (cnpj and the histories at i + 1 exist).
InItem == pc \in {"fetch", "insert", "verify", "log_absent", "pace", "log_exc", "aborted"}

UpsertFailed(k) == upsertRes[k] \in {"failed", "connect"}

\* ------------------------------------------------------------------ C1
\* C1: a full run over N items suspends exactly floor(N/3) times, once after
\* each position that is a multiple of 3, whatever the items' outcomes.
C1_SuspendsFloorNOver3 ==
  pc = "done" =>
    /\ sleptAfter = {k \in 1..N : k % REQUESTS_PER_MINUTE = 0}
    /\ Cardinality(sleptAfter) = N \div REQUESTS_PER_MINUTE

\* ------------------------------------------------------------------ C2
\* C2: every item whose fetch returned None or raised, or whose upsert failed,
\* has a log line by the time the loop moves to the next item.
C2_EveryFailureLogged ==
  \A k \in 1..N :
    (/\ Finished(k)
     /\ \/ fetchRes[k] \in {"absent", "raised"}
        \/ UpsertFailed(k))
    => LogCount(k) >= 1

\* ------------------------------------------------------------------ C3
\* C3: at the end of a full run every item is either Stored (committed, no
\* log line) or Failed (a log line, nothing committed), never both or neither.
C3_ExactlyOneTerminalState ==
  pc = "done" =>
    \A k \in 1..N :
      LET committed == upsertRes[k] = "ok"
          logged == LogCount(k) >= 1
      IN (committed /\ ~logged) \/ (logged /\ ~committed)

\* ------------------------------------------------------------------ C4
\* C4: an item whose fetch got a non-200 response ends with exactly one log
\* line and with the store as it was before the item.
C4_AbsentOneLogNoWrite ==
  /\ \A k \in 1..N :
       (fetchRes[k] = "absent" /\ (Finished(k) \/ pc \in {"pace", "aborted"}))
       => LogCount(k) = 1
  /\ (InItem /\ fetchRes[i + 1] = "absent") => db = dbBefore

\* ------------------------------------------------------------------ C5
\* C5: when main has ended, every item but the last whose insert_data failed
\* was followed by the fetch of the next item.
C5_StoreFailureDoesNotStopRun ==
  pc \in {"done", "aborted"} =>
    \A k \in 1..N :
      (k < N /\ UpsertFailed(k)) => fetchRes[k + 1] # "pending"

\* ------------------------------------------------------------------ C6
\* C6: log_error never raises: no exception of an unwritable log reaches
\* main's handler, and no run ends before the loop is through.
C6_LogSinkNeverRaises ==
  /\ ~(pc = "log_exc" /\ e = "log unwritable")
  /\ pc # "aborted"

\* ------------------------------------------------------------------ C7
\* C7: after a failed insert_data the committed rows are the rows committed
\* before the call, and the attempted record is visible only if it was before.
C7_FailedUpsertLeavesStore ==
  (InItem /\ UpsertFailed(i + 1)) =>
    /\ db = dbBefore
    /\ SelectByCnpj(db, data[1].cnpj) = SelectByCnpj(dbBefore, data[1].cnpj)

\* A commit that fails on the replacement of a row already committed.
C7_Witness ==
  /\ pc = "verify"
  /\ upsertRes[i + 1] = "failed"
  /\ data[1] \notin dbBefore
  /\ SelectByCnpj(dbBefore, data[1].cnpj) # {}
  /\ db = dbBefore

\* ------------------------------------------------------------------ C8
\* C8: the store holds at most one row per cnpj, each row is the last record
\* committed under its cnpj; a successful upsert leaves the rows of the other
\* keys alone, and upserting a record again changes nothing.
C8_UpsertLatestWins ==
  /\ \A r1, r2 \in db : r1.cnpj = r2.cnpj => r1 = r2
  /\ db = {last[k] : k \in DOMAIN last}
  /\ (InItem /\ upsertRes[i + 1] = "ok") =>
       /\ SelectByCnpj(db, data[1].cnpj) = {data[1]}
       /\ {r \in db : r.cnpj # data[1].cnpj} = {r \in dbBefore : r.cnpj # data[1].cnpj}
       /\ data[1] \in dbBefore => db = dbBefore
       /\ Commit(db, ExecuteReplace(db, data[1])) = db

\* A committed upsert that replaced a different row of its key while a row of
\* another key was in the store.
C8_Witness ==
  /\ pc = "verify"
  /\ upsertRes[i + 1] = "ok"
  /\ \E r \in dbBefore : r.cnpj = data[1].cnpj /\ r # data[1]
  /\ \E r \in dbBefore : r.cnpj # data[1].cnpj
  /\ data[1] \in db

\* ------------------------------------------------------------------ C9
\* C9: at most REQUESTS_PER_MINUTE requests are issued without a suspension
\* in between.
C9_AtMostThreeCallsBetweenSuspensions == calls <= REQUESTS_PER_MINUTE

\* ------------------------------------------------------------------ C10
\* C10: after a 200 response and a committed upsert the row is stored under
\* the cnpj that was requested, and the verification read finds it.
C10_VerificationFindsWrittenRecord ==
  /\ (InItem /\ upsertRes[i + 1] = "ok") =>
       /\ data[1].cnpj = cnpj
       /\ SelectByCnpj(db, cnpj) = {data[1]}
  /\ \A k \in 1..N : upsertRes[k] = "ok" => verifyRes[k] # "not_found"

====
